---- MODULE Spec2Model ----
(***************************************************************************)
(* The arbitrage engine of sftchance/mev: the openseaSudoswapArb strategy  *)
(* (src/src/strategies/openseaSudoswapArb.ts), the collectors that feed    *)
(* it and the Engine that dispatches to it.                                *)
(*                                                                         *)
(* The strategy is translated statement by statement.  Most of its         *)
(* routines are bodies that hold comments only: they are modelled as what  *)
(* they execute (nothing), not as what the comments announce.              *)
(*                                                                         *)
(* The Engine ("./engine"), the Collector base class ("@/core/collector")  *)
(* and the block collector are imported by the sources but are not among   *)
(* them: they are modelled from the design document (sections 4.4 and 5).  *)
(***************************************************************************)
EXTENDS Integers, Sequences, FiniteSets, TLC

VARIABLES
    chainHead,   \* the chain's current block number (client.getBlockNumber())
    channel,     \* the shared event channel: every Event emitted, in arrival order
    phase,       \* per Strategy: Uninitialized, Syncing, Synced, Processing, Failed
    syncPc,      \* per Strategy: the await syncState is suspended at
    toBlock,     \* per Strategy: syncState's local toBlock (line 25)
    next,        \* per Strategy: index in channel of the next Event to dispatch
    inflight,    \* per Strategy: channel indices whose processEvent is in progress
    sudoPools,   \* per Strategy: the sudoPools map (line 18)
    poolBids,    \* per Strategy: the poolBids map (line 19)
    headBlock,   \* per Strategy: the snapshot's head block, {} while none is recorded
    actions,     \* per Strategy: the Actions its processEvent returned, in order
    lastCall,    \* the last direct call of a routine of the strategy, with its result
    syncLog,     \* per Strategy: toBlock and snapshot of every syncState that resolved
    delivered,   \* per Strategy: the Events handed to its processEvent, in order
    attempts,    \* per Strategy: RPC calls the running syncState has seen settle
    chunkLoop,   \* a run of syncState's chunk loop on given pool addresses
    refGen       \* a run of generateReferences: its tasks and the files written

vars == << chainHead, channel, phase, syncPc, toBlock, next, inflight,
           sudoPools, poolBids, headBlock, actions, lastCall,
           syncLog, delivered, attempts,
           chunkLoop, refGen >>

engineVars == << chainHead, channel, phase, syncPc, toBlock, next, inflight >>
snapshotVars == << sudoPools, poolBids, headBlock >>
historyVars == << syncLog, delivered, attempts >>
\* The state of the runs the engine's actions take no part in.
sideVars == << chunkLoop, refGen >>

(***************************************************************************)
(* Bounds of the model.                                                    *)
(***************************************************************************)
\* Blocks the chain produces past the factory's deployment block.
MaxBlocks == 2
\* Events the collectors emit in one run.
MaxEvents == 3
\* Largest bid or listing price drawn.
MaxPrice == 2
\* Largest estimate of fees and gas drawn.
MaxFee == 1
\* Calls of syncState on one Strategy.
MaxSyncs == 2
\* Pool addresses getNewPools is given to return: three chunks are reached.
MaxAddresses == 401
\* References one generateReferences run is given (sources, then artifacts).
MaxReferences == 2

(***************************************************************************)
(* Program constants.                                                      *)
(***************************************************************************)
PAIR_FACTORY_DEPLOYMENT_BLOCK == 14650730
chunkSize == 200

\* The strategies registered with the Engine.
Strategies == {"arbA", "arbB"}
\* Pool addresses and NFT collections of the modelled chain.
Pools == {"p1", "p2"}
Collections == {"cA", "cB"}
\* The engine's configured chain and the native asset.
ConfiguredChain == "ethereum"
NativeToken == "ETH"

NoAction == [kind |-> "none"]
NoCall == [op |-> "none"]
NoRun == [pc |-> "none"]
EmptyMap == << >>

Min(a, b) == IF a <= b THEN a ELSE b
MaxOf(S) == CHOOSE m \in S : \A x \in S : x <= m

(***************************************************************************)
(* Events.                                                                 *)
(***************************************************************************)
\* The pools the factory deployed and the pools touched in block b of the
\* modelled chain history.
ChainNewPools(b) ==
    IF b = PAIR_FACTORY_DEPLOYMENT_BLOCK + 1 THEN {"p1"} ELSE {}
ChainTouchedPools(b) ==
    IF b = PAIR_FACTORY_DEPLOYMENT_BLOCK + 2 THEN {"p1", "p2"} ELSE {}

BlockEvent(b) ==
    [kind |-> "NewBlock", blockNumber |-> b,
     newPoolAddresses |-> ChainNewPools(b),
     touchedPoolAddresses |-> ChainTouchedPools(b)]

ListingEvent(c, price, chain, token) ==
    [kind |-> "OpenseaListing", nftCollection |-> c, price |-> price,
     chain |-> chain, paymentToken |-> token]

\* The listings the marketplace stream delivers to a running engine.
LiveListings ==
    { ListingEvent("cA", 1, ConfiguredChain, NativeToken) }

\* The listings processOrderEvent is called with directly.
ListingInputs ==
    { ListingEvent(c, p, ch, t) :
        c \in Collections, p \in 0..MaxPrice,
        ch \in {ConfiguredChain, "polygon"}, t \in {NativeToken, "WETH"} }

(***************************************************************************)
(* The strategy: openseaSudoswapArb.                                       *)
(***************************************************************************)
Snapshot(s) ==
    [sudoPools |-> sudoPools[s], poolBids |-> poolBids[s],
     headBlock |-> headBlock[s]]

\* getNewPools (lines 104-112): evaluates its arguments and returns [].
getNewPools(fromBlock, to) == << >>

\* getTouchedPools (lines 94-102): evaluates its arguments and returns [].
getTouchedPools(fromBlock, to) == << >>

\* getQuotesForPools (lines 89-92): builds a local empty array and returns
\* nothing (the promise resolves to undefined).
getQuotesForPools(addresses) == "undefined"

\* updateInternalPoolState (lines 115-118): the body holds two comments and no
\* statement; the maps are left as they are.
updateInternalPoolState(snap, poolsAndQuotes) == snap

\* The chunk loop of syncState (lines 32-36), from index i (0-based).
\* A slice that also takes the element at index i + chunkSize.
ChunkSlice_Inclusive(poolAddresses, i) ==
    SubSeq(poolAddresses, i + 1, Min(i + chunkSize + 1, Len(poolAddresses)))

\* poolAddresses.slice(i, i + chunkSize) (line 33): the elements at the
\* 0-based indices i .. i + chunkSize - 1 that exist.
ChunkSlice(poolAddresses, i) ==
    SubSeq(poolAddresses, i + 1, Min(i + chunkSize, Len(poolAddresses)))

RECURSIVE SyncChunks(_, _, _)
SyncChunks(poolAddresses, i, snap) ==
    IF i < Len(poolAddresses)
    THEN LET addresses == ChunkSlice(poolAddresses, i)
             quotes == getQuotesForPools(addresses)
         IN SyncChunks(poolAddresses, i + chunkSize,
                       updateInternalPoolState(snap, quotes))
    ELSE snap

\* A syncState that pushes the pool it finds onto the sudoPools array.
syncState_Push(snap, to) ==
    [snap EXCEPT !.sudoPools = Append(@, [address |-> "p1", toBlock |-> to])]

\* syncState after its first await (lines 24-36): the pools created from the
\* factory's deployment block to toBlock, then the chunk loop over them.
syncState(snap, to) ==
    LET fromBlock == PAIR_FACTORY_DEPLOYMENT_BLOCK
        poolAddresses == getNewPools(fromBlock, to)
    IN SyncChunks(poolAddresses, 0, snap)

\* processNewBlockEvent (lines 75-79): comments only.
processNewBlockEvent(snap, event) ==
    [snapshot |-> snap, action |-> NoAction]

\* A SubmitTransactionAction that sells the listing of event into pool p.
SubmitTx(p, event) ==
    [kind |-> "SubmitTransaction", pool |-> p,
     nftCollection |-> event.nftCollection, value |-> event.price]

\* The pools of the snapshot that trade the listing's collection, and those of
\* them that hold a quote.
CollectionPools(snap, event) ==
    { p \in DOMAIN snap.sudoPools :
        snap.sudoPools[p].nftCollection = event.nftCollection }
QuotedPools(snap, event) ==
    CollectionPools(snap, event) \cap DOMAIN snap.poolBids
Eligible(event) ==
    event.chain = ConfiguredChain /\ event.paymentToken = NativeToken

\* buildArbTransaction (lines 82-86): comments only; resolves to undefined.
buildArbTransaction == "undefined"

\* A processOrderEvent that matches a pool of the collection whether or not it
\* holds a quote.
processOrderEvent_AnyPool(snap, event, fees) ==
    IF Eligible(event) /\ CollectionPools(snap, event) # {}
    THEN [snapshot |-> snap,
          action |-> SubmitTx(CHOOSE p \in CollectionPools(snap, event) : TRUE,
                              event)]
    ELSE [snapshot |-> snap, action |-> NoAction]

\* A processOrderEvent that takes the best quoted pool and accepts a profit of
\* zero.
processOrderEvent_NonStrict(snap, event, fees) ==
    IF Eligible(event) /\ QuotedPools(snap, event) # {}
    THEN LET best == CHOOSE p \in QuotedPools(snap, event) :
                        \A q \in QuotedPools(snap, event) :
                           snap.poolBids[q] <= snap.poolBids[p]
         IN IF snap.poolBids[best] - event.price - fees >= 0
            THEN [snapshot |-> snap, action |-> SubmitTx(best, event)]
            ELSE [snapshot |-> snap, action |-> NoAction]
    ELSE [snapshot |-> snap, action |-> NoAction]

\* A processOrderEvent that takes the best quoted pool at a profit above zero
\* without looking at the listing's chain or payment token.
processOrderEvent_NoFilter(snap, event, fees) ==
    IF QuotedPools(snap, event) # {}
    THEN LET best == CHOOSE p \in QuotedPools(snap, event) :
                        \A q \in QuotedPools(snap, event) :
                           snap.poolBids[q] <= snap.poolBids[p]
         IN IF snap.poolBids[best] - event.price - fees > 0
            THEN [snapshot |-> snap, action |-> SubmitTx(best, event)]
            ELSE [snapshot |-> snap, action |-> NoAction]
    ELSE [snapshot |-> snap, action |-> NoAction]

\* processOrderEvent (lines 66-72): comments only; resolves to undefined.
processOrderEvent(snap, event, fees) ==
    [snapshot |-> snap, action |-> NoAction]

\* typeof of an Event object.
TypeOf(event) == "object"

\* A processEvent that hands every BlockEvent to an update of the head block,
\* whatever its blockNumber.
processEvent_NoStaleGuard(snap, event) ==
    IF event.kind = "NewBlock"
    THEN [snapshot |-> [snap EXCEPT !.headBlock = {event.blockNumber}],
          action |-> NoAction]
    ELSE [snapshot |-> snap, action |-> NoAction]

\* processEvent (lines 56-62): a switch on typeof event whose only case,
\* 'NewBlock', is empty; no routine is called.
processEvent(snap, event) ==
    CASE TypeOf(event) = "NewBlock" -> [snapshot |-> snap, action |-> NoAction]
      [] OTHER -> [snapshot |-> snap, action |-> NoAction]

(***************************************************************************)
(* syncState (lines 21-37), one action per await.                          *)
(***************************************************************************)
\* The Engine calls syncState: it runs to the await of client.getBlockNumber().
SyncStart(s) ==
    /\ phase[s] = "Uninitialized"
    /\ phase' = [phase EXCEPT ![s] = "Syncing"]
    /\ syncPc' = [syncPc EXCEPT ![s] = "getBlockNumber"]
    /\ UNCHANGED << chainHead, channel, toBlock, next, inflight,
                    sudoPools, poolBids, headBlock, actions, lastCall, sideVars >>
    /\ attempts' = [attempts EXCEPT ![s] = 0]
    /\ UNCHANGED << syncLog, delivered >>

\* client.getBlockNumber() resolves: toBlock is the chain head (line 25).
SyncGetBlockNumber(s) ==
    /\ phase[s] = "Syncing"
    /\ syncPc[s] = "getBlockNumber"
    /\ toBlock' = [toBlock EXCEPT ![s] = chainHead]
    /\ syncPc' = [syncPc EXCEPT ![s] = "getNewPools"]
    /\ UNCHANGED << chainHead, channel, phase, next, inflight,
                    sudoPools, poolBids, headBlock, actions, lastCall, sideVars >>
    /\ attempts' = [attempts EXCEPT ![s] = @ + 1]
    /\ UNCHANGED << syncLog, delivered >>

\* A syncState that calls client.getBlockNumber() again whenever it rejects.
SyncRpcFails_Retry(s) ==
    /\ phase[s] = "Syncing"
    /\ syncPc[s] = "getBlockNumber"
    /\ attempts' = [attempts EXCEPT ![s] = @ + 1]
    /\ UNCHANGED << engineVars, snapshotVars, actions, lastCall,
                    syncLog, delivered, sideVars >>

\* client.getBlockNumber() rejects: syncState's promise rejects with it.
SyncRpcFails(s) ==
    /\ phase[s] = "Syncing"
    /\ syncPc[s] = "getBlockNumber"
    /\ phase' = [phase EXCEPT ![s] = "Failed"]
    /\ syncPc' = [syncPc EXCEPT ![s] = "rejected"]
    /\ UNCHANGED << chainHead, channel, toBlock, next, inflight,
                    sudoPools, poolBids, headBlock, actions, lastCall, sideVars >>
    /\ attempts' = [attempts EXCEPT ![s] = @ + 1]
    /\ UNCHANGED << syncLog, delivered >>

\* getNewPools resolves and the chunk loop runs (lines 27-36); syncState
\* resolves.
SyncFinish(s) ==
    /\ phase[s] = "Syncing"
    /\ syncPc[s] = "getNewPools"
    /\ LET snap == syncState(Snapshot(s), toBlock[s])
       IN /\ sudoPools' = [sudoPools EXCEPT ![s] = snap.sudoPools]
          /\ poolBids' = [poolBids EXCEPT ![s] = snap.poolBids]
          /\ headBlock' = [headBlock EXCEPT ![s] = snap.headBlock]
    /\ phase' = [phase EXCEPT ![s] = "Synced"]
    /\ syncPc' = [syncPc EXCEPT ![s] = "resolved"]
    /\ UNCHANGED << chainHead, channel, toBlock, next, inflight,
                    actions, lastCall, sideVars >>
    /\ syncLog' = [syncLog EXCEPT ![s] =
                      Append(@, [toBlock |-> toBlock[s],
                                 snapshot |-> Snapshot(s)'])]
    /\ UNCHANGED << delivered, attempts >>

\* syncState is called again on a Strategy whose last syncState resolved.
ReSync(s) ==
    /\ phase[s] = "Synced"
    /\ Len(syncLog[s]) < MaxSyncs
    /\ phase' = [phase EXCEPT ![s] = "Syncing"]
    /\ syncPc' = [syncPc EXCEPT ![s] = "getBlockNumber"]
    /\ attempts' = [attempts EXCEPT ![s] = 0]
    /\ UNCHANGED << chainHead, channel, toBlock, next, inflight,
                    sudoPools, poolBids, headBlock, actions, lastCall,
                    syncLog, delivered, sideVars >>

(***************************************************************************)
(* Collectors.                                                             *)
(***************************************************************************)
\* The chain produces a block and the block collector emits its BlockEvent.
BlockCollect ==
    /\ Len(channel) < MaxEvents
    /\ chainHead < PAIR_FACTORY_DEPLOYMENT_BLOCK + MaxBlocks
    /\ chainHead' = chainHead + 1
    /\ channel' = Append(channel, BlockEvent(chainHead + 1))
    /\ UNCHANGED << phase, syncPc, toBlock, next, inflight,
                    sudoPools, poolBids, headBlock, actions, lastCall, sideVars >>
    /\ UNCHANGED historyVars

\* A reconnecting block collector emits again the BlockEvent of a block it has
\* emitted before.
BlockRedeliver ==
    /\ Len(channel) < MaxEvents
    /\ \E i \in 1..Len(channel) :
          /\ channel[i].kind = "NewBlock"
          /\ channel' = Append(channel, channel[i])
    /\ UNCHANGED << chainHead, phase, syncPc, toBlock, next, inflight,
                    sudoPools, poolBids, headBlock, actions, lastCall, sideVars >>
    /\ UNCHANGED historyVars

\* OpenseaListingCollector.getCollectionStream: every item listed is emitted.
ListingCollect ==
    /\ Len(channel) < MaxEvents
    /\ \E e \in LiveListings : channel' = Append(channel, e)
    /\ UNCHANGED << chainHead, phase, syncPc, toBlock, next, inflight,
                    sudoPools, poolBids, headBlock, actions, lastCall, sideVars >>
    /\ UNCHANGED historyVars

(***************************************************************************)
(* The Engine's live loop.                                                 *)
(***************************************************************************)
\* A dispatch that does not wait for the previous processEvent of s.
Dispatch_NoAwait(s) ==
    /\ phase[s] \in {"Synced", "Processing"}
    /\ next[s] <= Len(channel)
    /\ phase' = [phase EXCEPT ![s] = "Processing"]
    /\ inflight' = [inflight EXCEPT ![s] = @ \cup {next[s]}]
    /\ next' = [next EXCEPT ![s] = @ + 1]
    /\ UNCHANGED << chainHead, channel, syncPc, toBlock,
                    sudoPools, poolBids, headBlock, actions, lastCall, sideVars >>
    /\ delivered' = [delivered EXCEPT ![s] = Append(@, channel[next[s]])]
    /\ UNCHANGED << syncLog, attempts >>

\* A dispatch that does not wait for syncState of s to resolve.
Dispatch_Unsynced(s) ==
    /\ phase[s] # "Processing"
    /\ inflight[s] = {}
    /\ next[s] <= Len(channel)
    /\ phase' = [phase EXCEPT ![s] = "Processing"]
    /\ inflight' = [inflight EXCEPT ![s] = @ \cup {next[s]}]
    /\ next' = [next EXCEPT ![s] = @ + 1]
    /\ UNCHANGED << chainHead, channel, syncPc, toBlock,
                    sudoPools, poolBids, headBlock, actions, lastCall, sideVars >>
    /\ delivered' = [delivered EXCEPT ![s] = Append(@, channel[next[s]])]
    /\ UNCHANGED << syncLog, attempts >>

\* A dispatch that hands over the newest Event of the channel.
Dispatch_Newest(s) ==
    /\ phase[s] = "Synced"
    /\ inflight[s] = {}
    /\ next[s] <= Len(channel)
    /\ phase' = [phase EXCEPT ![s] = "Processing"]
    /\ inflight' = [inflight EXCEPT ![s] = @ \cup {Len(channel)}]
    /\ next' = [next EXCEPT ![s] = @ + 1]
    /\ delivered' = [delivered EXCEPT ![s] = Append(@, channel[Len(channel)])]
    /\ UNCHANGED << chainHead, channel, syncPc, toBlock,
                    sudoPools, poolBids, headBlock, actions, lastCall,
                    syncLog, attempts, sideVars >>

\* The Engine hands the next Event of the channel to Strategy s: s is synced
\* and its previous processEvent has completed.
Dispatch(s) ==
    /\ phase[s] = "Synced"
    /\ inflight[s] = {}
    /\ next[s] <= Len(channel)
    /\ phase' = [phase EXCEPT ![s] = "Processing"]
    /\ inflight' = [inflight EXCEPT ![s] = @ \cup {next[s]}]
    /\ next' = [next EXCEPT ![s] = @ + 1]
    /\ UNCHANGED << chainHead, channel, syncPc, toBlock,
                    sudoPools, poolBids, headBlock, actions, lastCall, sideVars >>
    /\ delivered' = [delivered EXCEPT ![s] = Append(@, channel[next[s]])]
    /\ UNCHANGED << syncLog, attempts >>

\* A processEvent invocation of Strategy s runs to completion.
Complete(s) ==
    /\ \E i \in inflight[s] :
          LET r == processEvent(Snapshot(s), channel[i])
          IN /\ sudoPools' = [sudoPools EXCEPT ![s] = r.snapshot.sudoPools]
             /\ poolBids' = [poolBids EXCEPT ![s] = r.snapshot.poolBids]
             /\ headBlock' = [headBlock EXCEPT ![s] = r.snapshot.headBlock]
             /\ actions' = [actions EXCEPT ![s] =
                               IF r.action = NoAction THEN @
                               ELSE Append(@, r.action)]
             /\ inflight' = [inflight EXCEPT ![s] = @ \ {i}]
             /\ phase' = [phase EXCEPT ![s] =
                             IF inflight[s] = {i} THEN "Synced" ELSE @]
    /\ UNCHANGED << chainHead, channel, syncPc, toBlock, next, lastCall, sideVars >>
    /\ UNCHANGED historyVars

\* No run of the chunk loop or of generateReferences is under way.
SideIdle ==
    /\ chunkLoop = NoRun
    /\ refGen = NoRun

\* The engine and its strategies as constructed.
Constructed ==
    /\ chainHead = PAIR_FACTORY_DEPLOYMENT_BLOCK
    /\ channel = << >>
    /\ phase = [s \in Strategies |-> "Uninitialized"]
    /\ syncPc = [s \in Strategies |-> "idle"]
    /\ toBlock = [s \in Strategies |-> PAIR_FACTORY_DEPLOYMENT_BLOCK]
    /\ next = [s \in Strategies |-> 1]
    /\ inflight = [s \in Strategies |-> {}]
    /\ sudoPools = [s \in Strategies |-> EmptyMap]
    /\ poolBids = [s \in Strategies |-> EmptyMap]
    /\ headBlock = [s \in Strategies |-> {}]
    /\ actions = [s \in Strategies |-> << >>]
    /\ lastCall = NoCall
    /\ syncLog = [s \in Strategies |-> << >>]
    /\ delivered = [s \in Strategies |-> << >>]
    /\ attempts = [s \in Strategies |-> 0]

Init == Constructed /\ SideIdle

Next ==
    \/ BlockCollect
    \/ BlockRedeliver
    \/ ListingCollect
    \/ \E s \in Strategies : SyncStart(s)
    \/ \E s \in Strategies : SyncGetBlockNumber(s)
    \/ \E s \in Strategies : SyncRpcFails(s)
    \/ \E s \in Strategies : SyncFinish(s)
    \/ \E s \in Strategies : Dispatch(s)
    \/ \E s \in Strategies : Complete(s)

Spec == Init /\ [][Next]_vars

(***************************************************************************)
(* syncState called more than once, with no live dispatch in between.      *)
(***************************************************************************)
NextSync ==
    \/ BlockCollect
    \/ \E s \in Strategies : SyncStart(s)
    \/ \E s \in Strategies : SyncGetBlockNumber(s)
    \/ \E s \in Strategies : SyncRpcFails(s)
    \/ \E s \in Strategies : SyncFinish(s)
    \/ \E s \in Strategies : ReSync(s)

SpecSync == Init /\ [][NextSync]_vars

(***************************************************************************)
(* The chunk loop of syncState (lines 32-36) on a given array of pool      *)
(* addresses, one action per await.  getNewPools returns [] in the         *)
(* sources, so the array is an input here: n distinct addresses 1 .. n.    *)
(* calls records the argument of every getQuotesForPools call, updates     *)
(* counts the updateInternalPoolState calls.                               *)
(***************************************************************************)
InitChunks ==
    /\ Constructed
    /\ refGen = NoRun
    /\ \E n \in 0 .. MaxAddresses : \E s \in Strategies :
          chunkLoop = [pc |-> "loop", s |-> s,
                       poolAddresses |-> [k \in 1 .. n |-> k],
                       i |-> 0, calls |-> << >>, updates |-> 0]

ChunkFrame ==
    UNCHANGED << engineVars, actions, lastCall, historyVars, refGen >>

\* Lines 32-34: the loop condition holds, the slice is taken and
\* getQuotesForPools is called with it; the loop waits for the quotes.
ChunkFetch ==
    /\ chunkLoop.pc = "loop"
    /\ chunkLoop.i < Len(chunkLoop.poolAddresses)
    /\ chunkLoop' = [chunkLoop EXCEPT
                        !.pc = "getQuotesForPools",
                        !.calls = Append(@, ChunkSlice(chunkLoop.poolAddresses,
                                                       chunkLoop.i))]
    /\ UNCHANGED snapshotVars
    /\ ChunkFrame

\* Lines 34-35 and the increment of line 32: the quotes arrive,
\* updateInternalPoolState is applied to them and i advances by chunkSize.
ChunkUpdate ==
    /\ chunkLoop.pc = "getQuotesForPools"
    /\ LET s == chunkLoop.s
           addresses == chunkLoop.calls[Len(chunkLoop.calls)]
           snap == updateInternalPoolState(Snapshot(s),
                                           getQuotesForPools(addresses))
       IN /\ sudoPools' = [sudoPools EXCEPT ![s] = snap.sudoPools]
          /\ poolBids' = [poolBids EXCEPT ![s] = snap.poolBids]
          /\ headBlock' = [headBlock EXCEPT ![s] = snap.headBlock]
    /\ chunkLoop' = [chunkLoop EXCEPT !.pc = "loop",
                                      !.i = @ + chunkSize,
                                      !.updates = @ + 1]
    /\ ChunkFrame

\* Line 32: the loop condition fails and syncState returns.
ChunkExit ==
    /\ chunkLoop.pc = "loop"
    /\ chunkLoop.i >= Len(chunkLoop.poolAddresses)
    /\ chunkLoop' = [chunkLoop EXCEPT !.pc = "done"]
    /\ UNCHANGED snapshotVars
    /\ ChunkFrame

NextChunks ==
    \/ ChunkFetch
    \/ ChunkUpdate
    \/ ChunkExit

SpecChunks == InitChunks /\ [][NextChunks]_vars

(***************************************************************************)
(* processOrderEvent on a given snapshot.  The arrays of lines 18-19 are   *)
(* empty in every state the program reaches, because no routine writes     *)
(* them.  The snapshots given here are those and every other content the   *)
(* arrays could hold: a superset of the program's states, on which only    *)
(* what processOrderEvent never does is checked (a property that holds on  *)
(* the superset holds on the program).  The listing and the fee estimate   *)
(* are inputs, and processOrderEvent is called once.                       *)
(***************************************************************************)
PoolRecords == [nftCollection : Collections]

\* The snapshots given: every map of pools, the empty one of lines 18-19
\* among them, and quotes for any part of the pools.
GivenSudoPools == UNION { [D -> PoolRecords] : D \in SUBSET Pools }
GivenPoolBids(pools) ==
    UNION { [D -> 1..MaxPrice] : D \in SUBSET (DOMAIN pools) }

InitOrder ==
    /\ chainHead = PAIR_FACTORY_DEPLOYMENT_BLOCK + MaxBlocks
    /\ channel = << >>
    /\ phase = [s \in Strategies |-> "Synced"]
    /\ syncPc = [s \in Strategies |-> "resolved"]
    /\ toBlock = [s \in Strategies |-> PAIR_FACTORY_DEPLOYMENT_BLOCK + MaxBlocks]
    /\ next = [s \in Strategies |-> 1]
    /\ inflight = [s \in Strategies |-> {}]
    /\ \E pools \in GivenSudoPools :
          /\ sudoPools = [s \in Strategies |-> pools]
          /\ \E bids \in GivenPoolBids(pools) :
                poolBids = [s \in Strategies |-> bids]
    /\ headBlock = [s \in Strategies |-> {PAIR_FACTORY_DEPLOYMENT_BLOCK + MaxBlocks}]
    /\ actions = [s \in Strategies |-> << >>]
    /\ lastCall = NoCall
    /\ syncLog = [s \in Strategies |-> << >>]
    /\ delivered = [s \in Strategies |-> << >>]
    /\ attempts = [s \in Strategies |-> 0]
    /\ SideIdle

\* processOrderEvent(event) is called on Strategy s and runs to completion.
OrderCall(s, event, fees) ==
    /\ lastCall = NoCall
    /\ LET r == processOrderEvent(Snapshot(s), event, fees)
       IN /\ sudoPools' = [sudoPools EXCEPT ![s] = r.snapshot.sudoPools]
          /\ poolBids' = [poolBids EXCEPT ![s] = r.snapshot.poolBids]
          /\ headBlock' = [headBlock EXCEPT ![s] = r.snapshot.headBlock]
          /\ actions' = [actions EXCEPT ![s] =
                            IF r.action = NoAction THEN @
                            ELSE Append(@, r.action)]
          /\ lastCall' = [op |-> "processOrderEvent", strategy |-> s,
                          event |-> event, fees |-> fees,
                          before |-> Snapshot(s), action |-> r.action]
    /\ UNCHANGED << engineVars, historyVars, sideVars >>

NextOrder ==
    \E s \in Strategies, event \in ListingInputs, fees \in 0..MaxFee :
        OrderCall(s, event, fees)

SpecOrder == InitOrder /\ [][NextOrder]_vars

(***************************************************************************)
(* updateInternalPoolState on a given snapshot (lines 115-118).  The       *)
(* snapshot given holds the same pools in both maps, the empty maps of     *)
(* lines 18-19 among them; the argument maps pool addresses to a refreshed *)
(* quote, {} when no quote is available.                                   *)
(***************************************************************************)
RefreshedQuotes ==
    UNION { [D -> {{}} \cup { {q} : q \in 1..MaxPrice }] : D \in SUBSET Pools }

InitUpdate ==
    /\ InitOrder
    /\ \A s \in Strategies : DOMAIN poolBids[s] = DOMAIN sudoPools[s]

\* updateInternalPoolState(poolsAndQuotes) is called on Strategy s.
UpdateCall(s, poolsAndQuotes) ==
    /\ lastCall = NoCall
    /\ LET snap == updateInternalPoolState(Snapshot(s), poolsAndQuotes)
       IN /\ sudoPools' = [sudoPools EXCEPT ![s] = snap.sudoPools]
          /\ poolBids' = [poolBids EXCEPT ![s] = snap.poolBids]
          /\ headBlock' = [headBlock EXCEPT ![s] = snap.headBlock]
    /\ lastCall' = [op |-> "updateInternalPoolState", strategy |-> s,
                    poolsAndQuotes |-> poolsAndQuotes, before |-> Snapshot(s)]
    /\ UNCHANGED << engineVars, actions, historyVars, sideVars >>

NextUpdate ==
    \E s \in Strategies, poolsAndQuotes \in RefreshedQuotes :
        UpdateCall(s, poolsAndQuotes)

SpecUpdate == InitUpdate /\ [][NextUpdate]_vars

(***************************************************************************)
(* generateReferences (src/src/lib/functions/references.ts, lines 190-232) *)
(* and generateStaticReference (lines 16-130) for one network.             *)
(*                                                                         *)
(* A reference holds the values the code branches on: its name, its abi    *)
(* (undefined, the empty string, the JSON text of an array, or another     *)
(* text), its address (undefined, empty or not), its bytecode and its      *)
(* source.  A source is undefined or a text.  A text is a sequence of      *)
(* tokens, each a tuple of strings: a brace << "{" >> or << "}" >>, a       *)
(* blank << " " >> (blanks and newlines), a comma, the member names         *)
(* << "sources" >> and << "content" >>, a member name that is a file key    *)
(* (<< "key" >> followed by the segments of its path), a string literal    *)
(* (<< "string", held >>, held being the braces the literal holds: "",     *)
(* "{", "}", "{{" or "}}") and << "code" >> for text that is not JSON.      *)
(*                                                                         *)
(* The file system holds, for each name, the writes made to                *)
(* <name>/index.ts, oldest first (the empty sequence is no file), and the  *)
(* names that have a contracts directory; other files are not kept.        *)
(* references.map runs every callback up to its first await in one go, in  *)
(* order; what follows an await runs later, in any order.                  *)
(***************************************************************************)
ReferenceNames == {"A", "B"}

NoSource == [defined |-> FALSE, text |-> << >>]
SourceText(text) == [defined |-> TRUE, text |-> text]

\* A flattened contract: it does not start with a brace.
FlattenedText == << << "code" >>, << "{" >>, << "}" >> >>

\* The JSON of the explorer for one file: opening braces, the sources
\* member with the file's key and content, closing braces.
JsonText(opening, key, held, closing) ==
    opening
    \o << << "sources" >>, << "{" >>, << "key" >> \o key, << "{" >>,
          << "content" >>, << "string", held >>, << "}" >> >>
    \o closing

SingleOpen == << << "{" >> >>
DoubleOpen == << << "{" >>, << "{" >> >>
SingleClose == << << "}" >>, << "}" >> >>
SingleCloseSpaced == << << " " >>, << "}" >>, << " " >>, << "}" >> >>
DoubleClose == << << "}" >>, << "}" >>, << "}" >> >>

\* The keys of the JSON sources given: the index file, with and without a
\* leading "./", a file under contracts and a file under another directory.
\* No key names index.ts or contracts as anything but that file and that
\* directory.
SourceKeys ==
    { << "index.ts" >>, << ".", "index.ts" >>, << "contracts", "C.sol" >>,
      << "src", "C.sol" >> }

\* The source texts given: a flattened contract; the JSON in double braces,
\* written compactly, for every key; the same with a content that holds
\* "}}"; the JSON in single braces, compact and with blanks between its
\* closing braces.
SourceInputs ==
    { SourceText(FlattenedText) }
    \cup { SourceText(JsonText(DoubleOpen, key, "", DoubleClose)) :
              key \in SourceKeys }
    \cup { SourceText(JsonText(DoubleOpen, << "index.ts" >>, "}}", DoubleClose)),
          SourceText(JsonText(SingleOpen, << "contracts", "C.sol" >>, "",
                              SingleClose)),
          SourceText(JsonText(SingleOpen, << "contracts", "C.sol" >>, "",
                              SingleCloseSpaced)) }

ValidAbis == {"[]"}
InvalidAbis == {"Contract source code not verified", "{}"}

\* The references given.  Around a reference with a valid abi and no
\* source, under either name, each field takes its other values in turn.
ReferenceInputs ==
    { [name |-> "", abi |-> "undefined", address |-> "undefined",
       bytecode |-> "undefined", source |-> NoSource] }
    \cup [name : ReferenceNames, abi : ValidAbis,
          address : {"undefined", "", "0xaddr"},
          bytecode : {"undefined", "0x60"}, source : {NoSource}]
    \cup [name : {"A"}, abi : {"undefined", ""} \cup InvalidAbis,
          address : {"undefined"}, bytecode : {"undefined"},
          source : {NoSource, SourceText(FlattenedText)}]
    \cup [name : {"A"}, abi : InvalidAbis, address : {"0xaddr"},
          bytecode : {"undefined"}, source : {NoSource}]
    \cup [name : {"A"}, abi : ValidAbis, address : {"undefined"},
          bytecode : {"undefined"}, source : SourceInputs]

\* A file that was there before the run, and a write made by reference k.
FileBefore == [by |-> "before", reference |-> 0]
WriteBy(routine, k) == [by |-> routine, reference |-> k]

\* JavaScript truthiness of the abi and address strings (lines 51, 64, 85).
Truthy(value) == value \notin {"undefined", ""}

\* fse.existsSync(file) (line 28).
existsSync(fs, name) == fs.files[name] # << >>

\* fse.writeFileSync on <name>/index.ts (lines 120 and 179).
writeFileSync(fs, name, writer) ==
    [fs EXCEPT !.files[name] = Append(@, writer)]

\* Lines 85-118: new utils.Interface(abi) and JSON.parse(abi).filter throw
\* when a truthy abi is not the JSON text of an array.
InterfaceThrows(abi) == Truthy(abi) /\ abi \notin ValidAbis

\* generateStaticReference from line 54 to its end: the text is built, which
\* throws on an abi that does not parse, and written (line 120).
generateStaticReference_Resume(fs, reference, k) ==
    IF InterfaceThrows(reference.abi)
    THEN [fs |-> fs, pc |-> "rejected"]
    ELSE [fs |-> writeFileSync(fs, reference.name, WriteBy("static", k)),
          pc |-> "returned"]

\* generateStaticReference up to its first await or its end (lines 16-52):
\* it returns if the file exists, waits for getCode if address is truthy
\* and bytecode is undefined, and goes on to build the text otherwise.
generateStaticReference(fs, reference, k) ==
    IF existsSync(fs, reference.name)
    THEN [fs |-> fs, pc |-> "returned"]
    ELSE IF Truthy(reference.address) /\ reference.bytecode = "undefined"
         THEN [fs |-> fs, pc |-> "getCode"]
         ELSE generateStaticReference_Resume(fs, reference, k)

\* Whether two braces of one kind start at token i of the text: two
\* brace tokens side by side, or a string literal that holds the pair.
PairAt(text, brace, i) ==
    \/ text[i] = << "string", brace \o brace >>
    \/ /\ text[i] = << brace >>
       /\ i < Len(text)
       /\ text[i + 1] = << brace >>

\* source.replace("{{", "{") and source.replace("}}", "}") (lines 146-147):
\* the first pair of braces of that kind in the text, wherever it is, loses
\* one brace; a text with no such pair is left as it is.
ReplaceFirst(text, brace) ==
    LET pairs == { i \in 1 .. Len(text) : PairAt(text, brace, i) }
    IN IF pairs = {} THEN text
       ELSE LET i == CHOOSE j \in pairs : \A h \in pairs : j <= h
            IN IF text[i] = << brace >>
               THEN SubSeq(text, 1, i) \o SubSeq(text, i + 2, Len(text))
               ELSE [text EXCEPT ![i] = << "string", brace >>]

\* The members of the sources object, blanks taken out: a key, its object
\* with a content, and a comma before each further member.
RECURSIVE IsMembers(_)
IsMembers(tokens) ==
    \/ tokens = << >>
    \/ /\ Len(tokens) >= 5
       /\ tokens[1][1] = "key"
       /\ tokens[2] = << "{" >>
       /\ tokens[3] = << "content" >>
       /\ tokens[4][1] = "string"
       /\ tokens[5] = << "}" >>
       /\ \/ Len(tokens) = 5
          \/ /\ Len(tokens) > 6
             /\ tokens[6] = << "," >>
             /\ IsMembers(SubSeq(tokens, 7, Len(tokens)))

IsBlank(token) == token = << " " >>
IsKey(token) == token[1] = "key"
NotBlank(token) == ~IsBlank(token)

\* JSON.parse(source).sources (line 157): the text parses when, blanks
\* aside, it is one object whose sources member is an object of file
\* members; any other text throws, in JSON.parse or in Object.entries.
JsonParses(text) ==
    LET tokens == SelectSeq(text, NotBlank)
    IN /\ Len(tokens) >= 5
       /\ tokens[1] = << "{" >>
       /\ tokens[2] = << "sources" >>
       /\ tokens[3] = << "{" >>
       /\ tokens[Len(tokens) - 1] = << "}" >>
       /\ tokens[Len(tokens)] = << "}" >>
       /\ IsMembers(SubSeq(tokens, 4, Len(tokens) - 2))

\* The keys of the file members of a text, in order, each as its segments.
RECURSIVE KeysOf(_)
KeysOf(text) ==
    IF text = << >> THEN << >>
    ELSE IF IsKey(Head(text))
         THEN << Tail(Head(text)) >> \o KeysOf(Tail(text))
         ELSE KeysOf(Tail(text))

\* Lines 146-166: the keys of contractSources.  A pair of braces is taken
\* off twice; a text that then starts and ends with a brace is parsed as
\* JSON and gives the keys of its sources, any other text is a flattened
\* contract and gives the one key contracts/<name>.sol.
ContractSources(source) ==
    LET text == ReplaceFirst(ReplaceFirst(source.text, "{"), "}")
    IN IF text # << >> /\ Head(text) = << "{" >>
          /\ text[Len(text)] = << "}" >>
       THEN IF JsonParses(text)
            THEN [parsed |-> TRUE, keys |-> KeysOf(text)]
            ELSE [parsed |-> FALSE, keys |-> << >>]
       ELSE [parsed |-> TRUE, keys |-> << << "contracts", "name.sol" >> >>]

\* sourceKey.replace("./", "").split("/") (lines 169-175): the segments of
\* the key; the first "." segment that a "/" follows goes.
KeySegments(sourceKey) ==
    LET dots == { i \in 1 .. (Len(sourceKey) - 1) : sourceKey[i] = "." }
    IN IF dots = {} THEN sourceKey
       ELSE LET i == CHOOSE j \in dots : \A h \in dots : j <= h
            IN SubSeq(sourceKey, 1, i - 1)
                  \o SubSeq(sourceKey, i + 1, Len(sourceKey))

\* Lines 168-182 for one key: the directory is made and the file written.
\* The write is kept when the file is <name>/index.ts, the directory when
\* it lies under <name>/contracts.
WriteSource(fs, name, sourceKey, k) ==
    LET segments == KeySegments(sourceKey)
        directory == SubSeq(segments, 1, Len(segments) - 1)
        filename == segments[Len(segments)]
        made == IF directory # << >> /\ Head(directory) = "contracts"
                THEN [fs EXCEPT !.contracts = @ \cup {name}]
                ELSE fs
    IN IF directory = << >> /\ filename = "index.ts"
       THEN writeFileSync(made, name, WriteBy("dynamic", k))
       ELSE made

RECURSIVE WriteSources(_, _, _, _)
WriteSources(fs, name, keys, k) ==
    IF keys = << >> THEN fs
    ELSE WriteSources(WriteSource(fs, name, Head(keys), k), name,
                      Tail(keys), k)

\* generateDynamicReference (lines 132-188): it returns if <name>/contracts
\* exists; it writes the files of the source otherwise, and nothing when the
\* source does not parse (the error is caught at line 183).
generateDynamicReference(fs, reference, k) ==
    IF reference.name \in fs.contracts THEN fs
    ELSE LET contractSources == ContractSources(reference.source)
         IN IF contractSources.parsed
            THEN WriteSources(fs, reference.name, contractSources.keys, k)
            ELSE fs

\* The end of the callback (lines 224-227).
CallbackEnd(fs, reference, k) ==
    IF reference.source.defined
    THEN generateDynamicReference(fs, reference, k)
    ELSE fs

\* The callback of references.map up to its first await (lines 204-222).
CallbackStart(fs, reference, k) ==
    IF reference.name = "" THEN [fs |-> fs, pc |-> "done"]
    ELSE IF reference.abi # "undefined"
         THEN generateStaticReference(fs, reference, k)
         ELSE [fs |-> CallbackEnd(fs, reference, k), pc |-> "done"]

\* references.map (lines 198-229): the callbacks of references k, k + 1, ...
\* started in order on file system fs; the file system and the position of
\* every callback when map returns.
RECURSIVE MapReferences(_, _, _, _)
MapReferences(fs, references, k, task) ==
    IF k > Len(references) THEN [fs |-> fs, task |-> task]
    ELSE LET r == CallbackStart(fs, references[k], k)
         IN MapReferences(r.fs, references, k + 1, Append(task, r.pc))

InitReferences ==
    /\ Constructed
    /\ chunkLoop = NoRun
    /\ \E references \in [1 .. MaxReferences -> ReferenceInputs] :
       \E present \in SUBSET ReferenceNames :
          refGen = [pc |-> "map", references |-> references, task |-> << >>,
                    fs |-> [files |-> [n \in ReferenceNames |->
                                         IF n \in present
                                         THEN << FileBefore >>
                                         ELSE << >>],
                            contracts |-> {}]]

ReferencesFrame ==
    UNCHANGED << engineVars, snapshotVars, actions, lastCall, historyVars,
                 chunkLoop >>

\* Lines 197-229: Promise.all(references.map(...)) is called.
GenerateReferences ==
    /\ refGen.pc = "map"
    /\ LET r == MapReferences(refGen.fs, refGen.references, 1, << >>)
       IN refGen' = [refGen EXCEPT !.pc = "Promise.all", !.fs = r.fs,
                                   !.task = r.task]
    /\ ReferencesFrame

\* Line 52 on: getCode of reference k resolves and generateStaticReference
\* goes on to its end.
GetCodeResolves(k) ==
    /\ refGen.pc = "Promise.all"
    /\ refGen.task[k] = "getCode"
    /\ LET r == generateStaticReference_Resume(refGen.fs,
                                               refGen.references[k], k)
       IN refGen' = [refGen EXCEPT !.fs = r.fs, !.task[k] = r.pc]
    /\ ReferencesFrame

\* Line 52: getCode of reference k rejects; the callback rejects with it.
GetCodeRejects(k) ==
    /\ refGen.pc = "Promise.all"
    /\ refGen.task[k] = "getCode"
    /\ refGen' = [refGen EXCEPT !.task[k] = "rejected"]
    /\ ReferencesFrame

\* Lines 214-227: the await of generateStaticReference resumes the callback
\* of reference k, which runs to its end.
CallbackResumes(k) ==
    /\ refGen.pc = "Promise.all"
    /\ refGen.task[k] = "returned"
    /\ refGen' = [refGen EXCEPT
                     !.fs = CallbackEnd(@, refGen.references[k], k),
                     !.task[k] = "done"]
    /\ ReferencesFrame

NextReferences ==
    \/ GenerateReferences
    \/ \E k \in 1 .. MaxReferences : GetCodeResolves(k)
    \/ \E k \in 1 .. MaxReferences : GetCodeRejects(k)
    \/ \E k \in 1 .. MaxReferences : CallbackResumes(k)

SpecReferences == InitReferences /\ [][NextReferences]_vars

(***************************************************************************)
(* Properties.                                                             *)
(***************************************************************************)
\* The channel indices whose processEvent on Strategy s has completed.
Completed(s) == { i \in 1..(next[s] - 1) : i \notin inflight[s] }

\* The blockNumbers of the BlockEvents Strategy s has processed.
SeenBlocks(s) ==
    { channel[i].blockNumber :
        i \in { j \in Completed(s) : channel[j].kind = "NewBlock" } }

\* Event i of the channel is a BlockEvent that is a duplicate or reordered
\* delivery for Strategy s: its blockNumber is at most the recorded head
\* block, or at most that of a BlockEvent delivered to s before it.
StaleBlockEvent(s, i) ==
    /\ channel[i].kind = "NewBlock"
    /\ \/ \E h \in headBlock[s] : channel[i].blockNumber <= h
       \/ \E j \in 1..(i - 1) :
             /\ channel[j].kind = "NewBlock"
             /\ channel[i].blockNumber <= channel[j].blockNumber

\* C2: once a Strategy has processed BlockEvents and is idle, its headBlock
\* is the largest blockNumber among them.
C2_HeadBlockIsMaxSeen ==
    \A s \in Strategies :
        (phase[s] = "Synced" /\ SeenBlocks(s) # {})
            => headBlock[s] = {MaxOf(SeenBlocks(s))}

\* C3: a processEvent that completes on a duplicate or reordered BlockEvent
\* leaves headBlock and both pool maps as they were and returns no Action.
C3_StaleBlockEventIsNoOp ==
    [][\A s \in Strategies : \A i \in inflight[s] :
          (i \notin inflight'[s] /\ StaleBlockEvent(s, i))
             => /\ headBlock'[s] = headBlock[s]
                /\ sudoPools'[s] = sudoPools[s]
                /\ poolBids'[s] = poolBids[s]
                /\ actions'[s] = actions[s]]_vars

\* A Strategy has processed a BlockEvent older than one it processed before,
\* and one it was delivered twice.
C3_Witness ==
    \E s \in Strategies : \E i, k \in Completed(s) :
        /\ StaleBlockEvent(s, i)
        /\ \E j \in 1..(i - 1) :
              /\ channel[j].kind = "NewBlock"
              /\ channel[i].blockNumber < channel[j].blockNumber
        /\ StaleBlockEvent(s, k)
        /\ \E j \in 1..(k - 1) : channel[j] = channel[k]

\* C4: no Strategy has two processEvent invocations in progress, and a
\* Strategy is in Processing exactly while one is.
C4_SequentialDispatch ==
    \A s \in Strategies :
        /\ Cardinality(inflight[s]) <= 1
        /\ (inflight[s] # {}) <=> (phase[s] = "Processing")

\* Two Strategies process concurrently, one of them its second Event.
C4_Witness ==
    \E s, t \in Strategies :
        /\ s # t
        /\ Cardinality(inflight[s]) = 1 /\ Cardinality(inflight[t]) = 1
        /\ inflight[s] = {2}

\* C5: a Strategy that has been handed an Event has had its syncState
\* resolve; one that is Uninitialized, Syncing or Failed has been handed none.
C5_DispatchOnlyAfterSync ==
    \A s \in Strategies :
        /\ (next[s] > 1 \/ inflight[s] # {}) => syncPc[s] = "resolved"
        /\ phase[s] \in {"Uninitialized", "Syncing", "Failed"}
              => (next[s] = 1 /\ inflight[s] = {})

\* Events wait in the channel while one Strategy has failed its sync, and
\* another, synced, is processing them.
C5_Witness ==
    \E s, t \in Strategies :
        /\ phase[s] = "Failed" /\ next[s] = 1 /\ Len(channel) >= 2
        /\ phase[t] = "Processing" /\ next[t] > 2

\* C11: a syncState that resolves over the same block range as the one before
\* it, with no Event processed in between, leaves the snapshot the previous
\* one left; the pool maps hold no address twice.
C11_ResyncIdempotent ==
    \A s \in Strategies : \A k \in 2..Len(syncLog[s]) :
        syncLog[s][k].toBlock = syncLog[s][k - 1].toBlock
            => /\ syncLog[s][k].snapshot = syncLog[s][k - 1].snapshot
               /\ DOMAIN syncLog[s][k].snapshot.sudoPools \subseteq Pools
               /\ DOMAIN syncLog[s][k].snapshot.poolBids \subseteq Pools

\* A Strategy has been synced twice up to the same block, and has processed
\* no Event.
C11_Witness ==
    \E s \in Strategies :
        /\ Len(syncLog[s]) >= 2
        /\ syncLog[s][2].toBlock = syncLog[s][1].toBlock
        /\ next[s] = 1
        /\ phase[s] = "Synced"

\* C12: the Events handed to a Strategy's processEvent are, in order, the
\* first Events the channel received: none is handed over before one that
\* entered the channel earlier, and none is passed over.
C12_ArrivalOrder ==
    \A s \in Strategies :
        /\ Len(delivered[s]) <= Len(channel)
        /\ delivered[s] = SubSeq(channel, 1, Len(delivered[s]))

\* A Strategy has been handed a listing and a BlockEvent that arrived in that
\* order, while a later Event waits in the channel.
C12_Witness ==
    \E s \in Strategies :
        /\ Len(delivered[s]) = 2
        /\ delivered[s][1].kind = "OpenseaListing"
        /\ delivered[s][2].kind = "NewBlock"
        /\ Len(channel) > 2
        /\ channel[3] # channel[2]

\* C13: when syncState has resolved and no BlockEvent has been processed yet,
\* headBlock is the chain head read at the start of the sync (toBlock), and
\* every Event the channel received before the Strategy's cursor has been
\* handed to it, all of them after the sync resolved.
C13_HeadBlockAtAdmission ==
    \A s \in Strategies :
        syncPc[s] = "resolved"
            => /\ SeenBlocks(s) = {} => headBlock[s] = {toBlock[s]}
               /\ Len(delivered[s]) = next[s] - 1

\* C14: a running syncState has seen at most one RPC call settle, it can
\* always take its next step, and the step after a rejected call is its end,
\* in the failed state.
C14_SyncTerminates ==
    \A s \in Strategies :
        /\ attempts[s] <= 1
        /\ phase[s] = "Syncing"
              => /\ ENABLED (SyncGetBlockNumber(s) \/ SyncFinish(s))
                 /\ syncPc[s] = "getBlockNumber" => attempts[s] = 0
        /\ syncPc[s] = "rejected" => (phase[s] = "Failed" /\ attempts[s] = 1)

\* A syncState has ended in the failed state after its one RPC call rejected.
C14_Witness ==
    \E s \in Strategies :
        phase[s] = "Failed" /\ syncPc[s] = "rejected" /\ attempts[s] = 1

\* The call recorded in lastCall.
Called == lastCall.op = "processOrderEvent"
ActionOf == lastCall.action
Emitted == ActionOf # NoAction
BidOf(p) == lastCall.before.poolBids[p]
CallCollectionPools == CollectionPools(lastCall.before, lastCall.event)
CallQuotedPools == QuotedPools(lastCall.before, lastCall.event)
CallCost == lastCall.event.price + lastCall.fees

\* C6: processOrderEvent never returns an Action for a pool that holds no
\* quote, and returns none when no pool of the listing's collection holds one.
C6_AbsentQuoteExcluded ==
    Called =>
        /\ Emitted => ActionOf.pool \in DOMAIN lastCall.before.poolBids
        /\ CallQuotedPools = {} => ~Emitted

\* An eligible listing was processed whose collection has pools, none quoted.
C6_Witness ==
    /\ Called
    /\ Eligible(lastCall.event)
    /\ CallCollectionPools # {}
    /\ CallQuotedPools = {}
    /\ ~Emitted

\* C16: for a listing on another chain or paid in another token
\* processOrderEvent returns no Action and leaves the snapshot as it was,
\* whatever the bids of the matching pools.
C16_IneligibleIsNoOp ==
    (Called /\ ~Eligible(lastCall.event))
        => /\ ~Emitted
           /\ Snapshot(lastCall.strategy) = lastCall.before
           /\ actions[lastCall.strategy] = << >>

\* A listing on another chain, and one paid in another token, were processed
\* while a pool of the collection bid above price + fees.
C16_Witness ==
    /\ Called
    /\ \/ lastCall.event.chain # ConfiguredChain
       \/ lastCall.event.paymentToken # NativeToken
    /\ \E p \in CallQuotedPools : BidOf(p) > CallCost
    /\ ~Emitted

\* C8: when the best quote of the listing's collection is at most price +
\* fees no Action is returned, and every Action returned has a profit above 0.
C8_UnprofitableIsNoAction ==
    Called =>
        /\ (/\ CallQuotedPools # {}
            /\ \A p \in CallQuotedPools : BidOf(p) <= CallCost) => ~Emitted
        /\ Emitted =>
              /\ ActionOf.pool \in CallQuotedPools
              /\ BidOf(ActionOf.pool) - CallCost > 0

\* An eligible listing was processed whose best quote equals price + fees.
C8_Witness ==
    /\ Called
    /\ Eligible(lastCall.event)
    /\ CallQuotedPools # {}
    /\ \A p \in CallQuotedPools : BidOf(p) <= CallCost
    /\ \E p \in CallQuotedPools : BidOf(p) = CallCost
    /\ ~Emitted

\* The addresses of the chunks passed to getQuotesForPools so far, in order.
RECURSIVE Flatten(_)
Flatten(chunks) ==
    IF chunks = << >> THEN << >>
    ELSE Head(chunks) \o Flatten(Tail(chunks))

\* C18: the chunk loop partitions the pool addresses.  At every step the
\* chunks passed to getQuotesForPools are, put end to end, the first
\* addresses of the array in their order (none twice, none skipped), each
\* chunk holds between 1 and 200 addresses, and updateInternalPoolState has
\* been applied to every chunk but the one being fetched; when the loop
\* ends the chunks make up the whole array and every chunk was applied.
C18_ChunksPartition ==
    LET fetched == Flatten(chunkLoop.calls)
    IN /\ Len(fetched) <= Len(chunkLoop.poolAddresses)
       /\ fetched = SubSeq(chunkLoop.poolAddresses, 1, Len(fetched))
       /\ \A k \in 1 .. Len(chunkLoop.calls) :
             /\ Len(chunkLoop.calls[k]) >= 1
             /\ Len(chunkLoop.calls[k]) <= 200
             /\ k < Len(chunkLoop.calls)
                   => Len(chunkLoop.calls[k]) = 200
       /\ chunkLoop.pc = "getQuotesForPools"
             => chunkLoop.updates = Len(chunkLoop.calls) - 1
       /\ chunkLoop.pc \in {"loop", "done"}
             => chunkLoop.updates = Len(chunkLoop.calls)
       /\ chunkLoop.pc = "done" => fetched = chunkLoop.poolAddresses

\* The loop ended after three chunks, the last one shorter than 200.
C18_Witness ==
    /\ chunkLoop.pc = "done"
    /\ Len(chunkLoop.calls) = 3
    /\ Len(chunkLoop.calls[3]) < 200
    /\ chunkLoop.updates = 3

C20_NeverOverwrites ==
    refGen.pc # "none"
       => \A n \in ReferenceNames :
             \A i \in 1 .. Len(refGen.fs.files[n]) :
                refGen.fs.files[n][i].by = "static" => i = 1
====
